---- MODULE Spec2Model ----
(***************************************************************************)
(* A model of sn-providing: query construction (construct_query.py) and    *)
(* the retrieval-augmented generation driver (addinfo_retrieval.py).       *)
(*                                                                         *)
(* Four specifications share this module:                                  *)
(*   SpecIngest    read_json followed by filter_by_category_1              *)
(*   SpecQuery     read_csv, filter_by_half_and_time, get_data, build_query*)
(*   SpecRun       one execution of addinfo_retrieval.run                  *)
(*   SpecRetriever successive runs sharing the storage directory          *)
(* Python strings are TLA+ strings; Optional values are <<>> (None) or     *)
(* <<v>>; a dict is a function whose DOMAIN is its key set.                *)
(***************************************************************************)
EXTENDS Integers, Sequences, FiniteSets, TLC

VARIABLES
    \* ---- construct_query.py: ingest of detection records
    predictions,         \* data["predictions"] of the input JSON
    spotting_data_list,  \* the SpottingDataList held by run()
    ipc,                 \* position in run(): "input", "read", "filtered"
    \* ---- construct_query.py: comment window and query
    comment_rows,        \* rows of the comment CSV
    start_is_str,        \* whether the CSV "start" column has dtype object
    player_df,           \* rows of the player CSV (VideoData.player_df)
    comment_data_list,   \* CommentDataList returned by read_csv
    ev,                  \* the spotting event (half, game_time) being served
    max_length,          \* build_query's max_length
    filtered_comment_list, \* result of filter_by_half_and_time
    query,               \* result of build_query
    qpc,                 \* "input", "read", "built"
    \* ---- addinfo_retrieval.py: what outlives a run
    storage,             \* PERSIST_LANGCHAIN_DIR: None, or the index artifact in it
    corpus,              \* DOCUMENT_DIR: None (no directory), or its documents
    built_by,            \* the call that built the stored index and returned a
                         \* retriever: None, or its arguments and its retriever
    \* ---- addinfo_retrieval.py: the arguments of run()
    retriever_type,
    no_retrieval,
    reference_documents_yaml,
    embedding_config,
    search_config,
    input_spottings,     \* run()'s spotting_data_list.spottings
    INSTRUCTION,         \* the module global read by the chain
    embedding_up,        \* whether the embedding service answers in this run
    \* ---- addinfo_retrieval.py: the state of run()
    pc,                  \* "idle", "retriever", "chain", "loop", "invoke",
                         \* "done", "failed"
    retriever,           \* None, or the retriever get_retriever returned
    storage_before,      \* storage when get_retriever was entered
    index_path,          \* "none", "build" or "load": the branch get_retriever took
    rag_chain,           \* "", or the chain get_rag_chain built
    reference_doc_data,  \* None, or the reference documents
    idx,                 \* position of the loop in input_spottings
    result_list,         \* result_list.spottings
    llm_calls,           \* prompts sent to the generation service, in order
    lookups,             \* calls of get_reference_documents_partial
    retriever_queries,   \* invocations of the retriever
    output_file,         \* None, or the records written to output_file
    error                \* "", or the exception that ended the run

ingestVars == <<predictions, spotting_data_list, ipc>>
queryVars == <<comment_rows, start_is_str, player_df, comment_data_list, ev,
               max_length, filtered_comment_list, query, qpc>>
envVars == <<storage, corpus, built_by>>
argVars == <<retriever_type, no_retrieval, reference_documents_yaml,
             embedding_config, search_config, input_spottings, INSTRUCTION,
             embedding_up>>
runVars == <<pc, retriever, storage_before, index_path, rag_chain,
             reference_doc_data, idx, result_list, llm_calls, lookups,
             retriever_queries, output_file, error>>
genVars == <<envVars, argVars, runVars>>
vars == <<ingestVars, queryVars, genVars>>

(***************************************************************************)
(* Bounds of the model.                                                    *)
(***************************************************************************)
MaxPredictions == 3
MaxRows == 3
MaxBudget == 16
MaxEvents == 3

(***************************************************************************)
(* Python values and string functions.                                     *)
(***************************************************************************)
None == <<>>
Some(x) == <<x>>

\* A JSON scalar: an integer or a string.
JInt(n) == [t |-> "int", i |-> n, s |-> ""]
JStr(x) == [t |-> "str", i |-> 0, s |-> x]

CharAt(s, i) == SubSeq(s, i, i)

\* str.split(sep) for a one-character separator: every separator splits,
\* empty parts are kept.
RECURSIVE str_split(_, _)
str_split(s, sep) ==
    IF \A i \in 1..Len(s) : CharAt(s, i) # sep
    THEN <<s>>
    ELSE LET p == CHOOSE i \in 1..Len(s) :
                      /\ CharAt(s, i) = sep
                      /\ \A j \in 1..(i - 1) : CharAt(s, j) # sep
         IN <<SubSeq(s, 1, p - 1)>> \o str_split(SubSeq(s, p + 1, Len(s)), sep)

Digits == <<"0", "1", "2", "3", "4", "5", "6", "7", "8", "9">>
DigitValue(c) == (CHOOSE d \in 1..10 : Digits[d] = c) - 1

\* int(s) for a non-empty string of decimal digits.
RECURSIVE py_int(_)
py_int(s) ==
    IF Len(s) = 1
    THEN DigitValue(s)
    ELSE py_int(SubSeq(s, 1, Len(s) - 1)) * 10 + DigitValue(CharAt(s, Len(s)))

\* str(n) for n >= 0.
RECURSIVE int_str(_)
int_str(n) == IF n < 10 THEN Digits[n + 1] ELSE int_str(n \div 10) \o Digits[(n % 10) + 1]

\* str(v) and int(v) of a JSON scalar.
py_str(v) == IF v.t = "int" THEN int_str(v.i) ELSE v.s
py_int_of(v) == IF v.t = "int" THEN v.i ELSE py_int(v.s)

\* sep.join(parts)
RECURSIVE str_join(_, _)
str_join(sep, parts) ==
    IF Len(parts) = 0 THEN ""
    ELSE IF Len(parts) = 1 THEN parts[1]
    ELSE parts[1] \o sep \o str_join(sep, Tail(parts))

\* reversed(seq)
Reversed(seq) == [i \in 1..Len(seq) |-> seq[Len(seq) + 1 - i]]

(***************************************************************************)
(* construct_query.py: SpottingDataList.read_json / filter_by_category_1   *)
(***************************************************************************)
\* Detection records the input file may hold.  category is written either
\* as a JSON number or as a JSON string.
GameTimes == {"1 - 00:24", "1 - 01:05", "2 - 10:59", "2 - 45:00"}
Categories == {JInt(0), JInt(1), JStr("0"), JStr("1")}
Detections ==
    { [gameTime |-> g, half |-> JStr(CharAt(g, 1)), confidence |-> 90,
       position |-> JStr("24000"), category |-> c] :
      g \in GameTimes, c \in Categories }

\* minutes, seconds = map(int, d["gameTime"].split(" ")[-1].split(":"))
GameTimeParts(gameTime) ==
    LET words == str_split(gameTime, " ")
        last == words[Len(words)]
        parts == str_split(last, ":")
    IN [minutes |-> py_int(parts[1]), seconds |-> py_int(parts[2])]

game_time_swapped(gameTime) ==
    LET p == GameTimeParts(gameTime) IN p.seconds * 60 + p.minutes

game_time_of(gameTime) ==
    LET p == GameTimeParts(gameTime) IN p.minutes * 60 + p.seconds

SpottingData(d) ==
    [half |-> py_int_of(d.half),
     game_time |-> game_time_of(d.gameTime),
     confidence |-> d.confidence,
     position |-> py_int_of(d.position),
     category |-> py_str(d.category),
     query |-> None,
     addiofo |-> None]

read_json(data) == [i \in 1..Len(data) |-> SpottingData(data[i])]

IsCategory1(s) == s.category = "1"
IsCategory0(s) == s.category = "0"

filter_by_category_0(spottings) == SelectSeq(spottings, IsCategory0)

filter_by_category_1(spottings) == SelectSeq(spottings, IsCategory1)

\* The input file gains one more detection record.
AppendPrediction ==
    /\ ipc = "input"
    /\ Len(predictions) < MaxPredictions
    /\ \E d \in Detections : predictions' = Append(predictions, d)
    /\ UNCHANGED <<spotting_data_list, ipc, queryVars, genVars>>

\* run(): spotting_data_list = SpottingDataList.read_json(args.input_file)
ReadJson ==
    /\ ipc = "input"
    /\ spotting_data_list' = read_json(predictions)
    /\ ipc' = "read"
    /\ UNCHANGED <<predictions, queryVars, genVars>>

\* run(): spotting_data_list = SpottingDataList.filter_by_category_1(...)
FilterByCategory1 ==
    /\ ipc = "read"
    /\ spotting_data_list' = filter_by_category_1(spotting_data_list)
    /\ ipc' = "filtered"
    /\ UNCHANGED <<predictions, queryVars, genVars>>

InitIngest ==
    /\ predictions = <<>>
    /\ spotting_data_list = <<>>
    /\ ipc = "input"

InitQueryIdle ==
    /\ comment_rows = <<>>
    /\ start_is_str = FALSE
    /\ player_df = <<>>
    /\ comment_data_list = <<>>
    /\ ev = [half |-> 1, game_time |-> 0]
    /\ max_length = 0
    /\ filtered_comment_list = <<>>
    /\ query = ""
    /\ qpc = "input"

\* No run of addinfo_retrieval.py has started.
InitRunIdle ==
    /\ built_by = None
    /\ retriever_type = "tfidf"
    /\ no_retrieval = FALSE
    /\ reference_documents_yaml = None
    /\ embedding_config = [model |-> "text-embedding-ada-002", chunk_size |-> 1000]
    /\ search_config = [k |-> 10, score_threshold |-> 70]
    /\ input_spottings = <<>>
    /\ INSTRUCTION = ""
    /\ embedding_up = TRUE
    /\ pc = "idle"
    /\ retriever = None
    /\ storage_before = None
    /\ index_path = "none"
    /\ rag_chain = ""
    /\ reference_doc_data = None
    /\ idx = 0
    /\ result_list = <<>>
    /\ llm_calls = <<>>
    /\ lookups = 0
    /\ retriever_queries = 0
    /\ output_file = None
    /\ error = ""

InitGenIdle ==
    /\ storage = None
    /\ corpus = None
    /\ InitRunIdle

InitOfIngest == InitIngest /\ InitQueryIdle /\ InitGenIdle

NextIngest == AppendPrediction \/ ReadJson \/ FilterByCategory1

SpecIngest == InitOfIngest /\ [][NextIngest]_vars

(***************************************************************************)
(* C9: after read_json and filter_by_category_1 the event set holds        *)
(* exactly the detection records whose category is "1", in source order,   *)
(* each with game_time = minutes*60 + seconds of its gameTime; records of  *)
(* any other category are absent.                                          *)
(***************************************************************************)
\* The positions of the category-"1" records of the input, ascending.
RECURSIVE Category1Positions(_)
Category1Positions(n) ==
    IF n = 0 THEN <<>>
    ELSE Category1Positions(n - 1) \o
         (IF (predictions[n].category.t = "int" /\ predictions[n].category.i = 1)
             \/ (predictions[n].category.t = "str" /\ predictions[n].category.s = "1")
          THEN <<n>> ELSE <<>>)

\* "H - MM:SS" read by position: minutes are characters 5-6, seconds 8-9.
SecondsOfFixedFormat(g) ==
    (DigitValue(CharAt(g, 5)) * 10 + DigitValue(CharAt(g, 6))) * 60
    + DigitValue(CharAt(g, 8)) * 10 + DigitValue(CharAt(g, 9))

C9_IngestedExactlyCategory1 ==
    ipc = "filtered" =>
        LET pos == Category1Positions(Len(predictions)) IN
        /\ Len(spotting_data_list) = Len(pos)
        /\ \A j \in 1..Len(pos) :
              /\ spotting_data_list[j].category = "1"
              /\ spotting_data_list[j].game_time
                    = SecondsOfFixedFormat(predictions[pos[j]].gameTime)
              /\ spotting_data_list[j].half
                    = DigitValue(CharAt(predictions[pos[j]].gameTime, 1))

\* Three records, the middle one of category 0, the kept ones in order.
C9_Witness ==
    /\ ipc = "filtered"
    /\ Len(predictions) = 3
    /\ predictions[1].category = JStr("1")
    /\ predictions[2].category = JStr("0")
    /\ predictions[3].category = JInt(1)
    /\ predictions[1].gameTime = "2 - 10:59"
    /\ predictions[3].gameTime = "1 - 01:05"
    /\ Len(spotting_data_list) = 2
    /\ spotting_data_list[1].game_time = 659
    /\ spotting_data_list[2].game_time = 65

(***************************************************************************)
(* construct_query.py: CommentDataList.read_csv                            *)
(***************************************************************************)
Game == "g1"
OtherGame == "g2"

\* "MM:SS" as the comment CSV writes a start time.
Pad2(n) == IF n < 10 THEN "0" \o int_str(n) ELSE int_str(n)
ClockText(seconds) == Pad2(seconds \div 60) \o ":" \o Pad2(seconds % 60)

\* A cell of the "start" column: text "MM:SS" when the column has dtype
\* object, a number of seconds otherwise.
StartCell(seconds, asText) == IF asText THEN JStr(ClockText(seconds)) ELSE JInt(seconds)

CommentRow(game, half, seconds, text, asText) ==
    [game |-> game, half |-> half, start |-> StartCell(seconds, asText),
     text |-> text, flag |-> JInt(0)]

\* Rows the comment CSV may hold.
CommentRows(asText) ==
    { CommentRow(Game, 1, 10, "Goal!", asText),
      CommentRow(Game, 1, 10, "Nice pass", asText),
      CommentRow(Game, 1, 40, "Goal!", asText),
      CommentRow(Game, 1, 40, "Nice pass", asText),
      CommentRow(Game, 1, 50, "Nice pass", asText),
      CommentRow(Game, 2, 40, "Goal!", asText),
      CommentRow(OtherGame, 1, 40, "Nice pass", asText) }

\* convert_time: minute * 60 + second of "MM:SS"
convert_time(time) ==
    LET parts == str_split(time, ":")
    IN py_int(parts[1]) * 60 + py_int(parts[2])

\* comment_df = comment_df[comment_df["game"] == game]
RowsOfGame(rows, game) == LET OfGame(r) == r.game = game IN SelectSeq(rows, OfGame)

\* if comment_df["start"].dtype == "O": apply(convert_time)
StartSeconds(cell) == IF cell.t = "str" THEN convert_time(cell.s) ELSE cell.i

\* sort_values("start"): ascending by start; the default sort is not
\* stable, so rows with equal start may come out in any order.
SortedOrders(starts) ==
    { p \in Permutations(1..Len(starts)) :
        \A i, j \in 1..Len(starts) : i < j => starts[p[i]] <= starts[p[j]] }

CommentData(row) ==
    [half |-> row.half, start_time |-> StartSeconds(row.start),
     text |-> row.text, category |-> py_str(row.flag)]

\* The lists read_csv may return for the rows of the file.
read_csv(rows, game) ==
    LET kept == RowsOfGame(rows, game)
        starts == [i \in 1..Len(kept) |-> StartSeconds(kept[i].start)]
    IN { [i \in 1..Len(kept) |-> CommentData(kept[p[i]])] : p \in SortedOrders(starts) }

(***************************************************************************)
(* construct_query.py: filter_by_half_and_time, VideoData.get_data,        *)
(* build_query                                                             *)
(***************************************************************************)
SecondsBefore == 60
SecThreshold == 2
DefaultMaxLength == 256

InWindowInclusive(c, half, game_time, seconds_before) ==
    /\ c.half = half
    /\ c.start_time >= game_time - seconds_before
    /\ c.start_time <= game_time

InWindow(c, half, game_time, seconds_before) ==
    /\ c.half = half
    /\ c.start_time >= game_time - seconds_before
    /\ c.start_time < game_time

filter_by_half_and_time(comments, half, game_time, seconds_before) ==
    LET Keep(c) == InWindow(c, half, game_time, seconds_before)
    IN SelectSeq(comments, Keep)

\* Rows of the player CSV.
PlayerTable ==
    << [game |-> Game, half |-> 1, time |-> 98, team |-> "Home", name |-> "Kane"],
       [game |-> Game, half |-> 1, time |-> 102, team |-> "Away", name |-> "Salah"],
       [game |-> Game, half |-> 1, time |-> 103, team |-> "Away", name |-> "Diaz"],
       [game |-> Game, half |-> 2, time |-> 52, team |-> "Away", name |-> "Mane"],
       [game |-> OtherGame, half |-> 1, time |-> 50, team |-> "Home", name |-> "Son"] >>

get_data(df, game, half, game_time) ==
    LET Shown(r) == /\ r.half = half
                    /\ r.game = game
                    /\ r.time >= game_time - SecThreshold
                    /\ r.time <= game_time + SecThreshold
        rows == SelectSeq(df, Shown)
    IN [i \in 1..Len(rows) |-> [team |-> rows[i].team, name |-> rows[i].name]]

CommentsPrefix == "Previous comments: "
PlayersPrefix == "Players shown in this frame: "

\* if total_length + len(comment.text) > max_length: break
ExceedsBudget(total_length, text, budget) == total_length + Len(text) > budget

AdvanceWithoutSeparator(total_length, text) == total_length + Len(text)

\* total_length += len(comment.text) + 1
Advance(total_length, text) == total_length + Len(text) + 1

\* The loop over reversed(comments.comments): rest is what is left of the
\* reversed list, accepted is the list named query in the source.
RECURSIVE Accumulate(_, _, _, _)
Accumulate(rest, budget, total_length, accepted) ==
    IF Len(rest) = 0 THEN accepted
    ELSE IF ExceedsBudget(total_length, rest[1].text, budget) THEN accepted
    ELSE Accumulate(Tail(rest), budget, Advance(total_length, rest[1].text),
                    Append(accepted, rest[1].text))

build_query(comments, budget, video_data) ==
    LET accepted == Accumulate(Reversed(comments), budget, 0, <<>>)
        body == CommentsPrefix \o str_join(" ", Reversed(accepted))
        shown == [i \in 1..Len(video_data) |->
                    video_data[i].name \o " @ " \o video_data[i].team]
    IN IF Len(video_data) > 0
       THEN PlayersPrefix \o str_join(" ", shown) \o "\n\n" \o body
       ELSE body

Budgets == (0..MaxBudget) \cup {DefaultMaxLength}
Events == { [half |-> 1, game_time |-> 50], [half |-> 1, game_time |-> 100],
            [half |-> 2, game_time |-> 50] }

\* The comment CSV gains one more row.
AppendCommentRow ==
    /\ qpc = "input"
    /\ Len(comment_rows) < MaxRows
    /\ \E r \in CommentRows(start_is_str) : comment_rows' = Append(comment_rows, r)
    /\ UNCHANGED <<start_is_str, player_df, comment_data_list, ev, max_length,
                   filtered_comment_list, query, qpc, ingestVars, genVars>>

\* run(): comment_data_list = CommentDataList.read_csv(args.comment_csv, args.game)
ReadCsv ==
    /\ qpc = "input"
    /\ comment_data_list' \in read_csv(comment_rows, Game)
    /\ qpc' = "read"
    /\ UNCHANGED <<comment_rows, start_is_str, player_df, ev, max_length,
                   filtered_comment_list, query, ingestVars, genVars>>

\* run(): the body of the loop over the spotting events, for one event.
\* The source calls build_query with its default max_length; the model
\* lets the parameter range over Budgets.
BuildQuery ==
    /\ qpc = "read"
    /\ \E e \in Events, b \in Budgets :
          LET filtered == filter_by_half_and_time(comment_data_list, e.half,
                                                  e.game_time, SecondsBefore)
              shown == get_data(player_df, Game, e.half, e.game_time)
          IN /\ ev' = e
             /\ max_length' = b
             /\ filtered_comment_list' = filtered
             /\ query' = build_query(filtered, b, shown)
    /\ qpc' = "built"
    /\ UNCHANGED <<comment_rows, start_is_str, player_df, comment_data_list,
                   ingestVars, genVars>>

InitQuery ==
    /\ comment_rows = <<>>
    /\ start_is_str \in BOOLEAN
    /\ player_df = PlayerTable
    /\ comment_data_list = <<>>
    /\ ev = [half |-> 1, game_time |-> 0]
    /\ max_length = 0
    /\ filtered_comment_list = <<>>
    /\ query = ""
    /\ qpc = "input"

InitOfQuery == InitQuery /\ InitIngest /\ InitGenIdle

NextQuery == AppendCommentRow \/ ReadCsv \/ BuildQuery

SpecQuery == InitOfQuery /\ [][NextQuery]_vars

\* What follows the first occurrence of marker in s (s itself when the
\* marker does not occur).
AfterMarker(s, marker) ==
    LET n == Len(marker)
        at == { i \in 1..(Len(s) - n + 1) : SubSeq(s, i, i + n - 1) = marker }
    IN IF at = {} THEN s
       ELSE LET first == CHOOSE i \in at : \A j \in at : i <= j
            IN SubSeq(s, first + n, Len(s))

CommentPortion == AfterMarker(query, CommentsPrefix)

(***************************************************************************)
(* C1: the comment-text portion of the string build_query returns (what    *)
(* follows "Previous comments: ", separators included) is never longer     *)
(* than max_length.                                                        *)
(***************************************************************************)
C1_PortionWithinBudget ==
    qpc = "built" => Len(CommentPortion) <= max_length

\* Three comments in the window, the budget admits exactly two of them.
C1_Witness ==
    /\ qpc = "built"
    /\ Len(filtered_comment_list) = 3
    /\ max_length = 11
    /\ CommentPortion = "Goal! Goal!"

(***************************************************************************)
(* C10: the comments in an event's query are the longest most-recent       *)
(* suffix of the sorted same-half comments with start_time in              *)
(* [game_time - 60, game_time) whose joined text fits the budget: they are *)
(* in chronological order, all start strictly before game_time, and no     *)
(* older comment follows a skipped one.                                    *)
(***************************************************************************)
\* The same-half comments of the window, in the order of the sorted list.
WindowOf(comments, e) ==
    LET Within(c) == /\ c.half = e.half
                     /\ e.game_time - 60 <= c.start_time
                     /\ c.start_time < e.game_time
    IN SelectSeq(comments, Within)

\* The texts of the last k comments of w, joined by single spaces.
SuffixText(w, k) ==
    str_join(" ", [i \in 1..k |-> w[Len(w) - k + i].text])

C10_QueryIsRecentSuffix ==
    qpc = "built" =>
        LET w == WindowOf(comment_data_list, ev) IN
        /\ filtered_comment_list = w
        /\ \A i \in 1..Len(w) : w[i].start_time < ev.game_time
        /\ \A i, j \in 1..Len(w) : i < j => w[i].start_time <= w[j].start_time
        /\ \E k \in 0..Len(w) :
              /\ CommentPortion = SuffixText(w, k)
              /\ Len(SuffixText(w, k)) <= max_length
              /\ k < Len(w) => Len(SuffixText(w, k + 1)) > max_length
        /\ (/\ comment_data_list
                 = << [half |-> 1, start_time |-> 10, text |-> "Goal!", category |-> "0"],
                      [half |-> 1, start_time |-> 40, text |-> "Nice pass", category |-> "0"] >>
            /\ ev = [half |-> 1, game_time |-> 50]
            /\ max_length = DefaultMaxLength)
           => query = "Previous comments: Goal! Nice pass"

\* The example of the claim.
C10_Witness ==
    /\ qpc = "built"
    /\ comment_data_list
         = << [half |-> 1, start_time |-> 10, text |-> "Goal!", category |-> "0"],
              [half |-> 1, start_time |-> 40, text |-> "Nice pass", category |-> "0"] >>
    /\ ev = [half |-> 1, game_time |-> 50]
    /\ max_length = DefaultMaxLength
    /\ CommentPortion = "Goal! Nice pass"

(***************************************************************************)
(* addinfo_retrieval.py: configuration                                     *)
(***************************************************************************)
\* embedding_config as __main__ builds it and as EMBEDDING_CONFIG holds it:
\* the keys model and chunk_size only.
MainEmbeddingConfig == [model |-> "text-embedding-ada-002", chunk_size |-> 1000]

\* An embedding_config a caller of run() or get_retriever() may pass that
\* also carries k and score_threshold.
CallerEmbeddingConfig ==
    [model |-> "text-embedding-ada-002", chunk_size |-> 1000,
     k |-> 1, score_threshold |-> 50]

EmbeddingConfigs == {MainEmbeddingConfig, CallerEmbeddingConfig}

\* search_config: k and score_threshold (in hundredths), both set by the
\* command line.
SearchConfigs == {[k |-> 2, score_threshold |-> 70]}

RetrieverTypes == {"tfidf", "openai-embedding", "bm25"}

(***************************************************************************)
(* addinfo_retrieval.py: get_document_splits and the index libraries       *)
(***************************************************************************)
ChunkSize == 1000

\* The documents of DOCUMENT_DIR when it holds any.
CorpusDocuments ==
    << "Messi has scored 30 goals this season.",
       "Arsenal are unbeaten in 10 home games." >>

Corpora == {None, Some(<<>>), Some(CorpusDocuments)}

\* get_document_splits: os.listdir raises when the directory is missing.
\* A document no longer than chunk_size is one chunk; the documents of the
\* model are all that short.
get_document_splits(dir) ==
    IF dir = None
    THEN [error |-> "FileNotFoundError", splits |-> <<>>]
    ELSE [error |-> "", splits |-> SelectSeq(dir[1], LAMBDA d : Len(d) <= ChunkSize)]

\* What a saved index holds: the library that wrote it and its chunks.
Artifact(kind, chunks) == [kind |-> kind, chunks |-> chunks]

\* The relevance of a chunk to a query, in hundredths.
Score(q, chunk) ==
    IF q = "Previous comments: Goal!"
    THEN (IF chunk = CorpusDocuments[1] THEN 90 ELSE 60)
    ELSE (IF chunk = CorpusDocuments[1] THEN 40 ELSE 80)

\* Chunk positions by descending relevance to q.
Ranking(chunks, q) ==
    CHOOSE p \in Permutations(1..Len(chunks)) :
        \A i, j \in 1..Len(chunks) :
            i < j => \/ Score(q, chunks[p[i]]) > Score(q, chunks[p[j]])
                     \/ (Score(q, chunks[p[i]]) = Score(q, chunks[p[j]]) /\ p[i] < p[j])

\* retriever.invoke(q): the k best chunks; the FAISS retriever
\* (similarity_score_threshold) keeps those at or above its threshold.
Retrieve(r, q) ==
    LET p == Ranking(r.chunks, q)
        ranked == [i \in 1..Len(r.chunks) |-> r.chunks[p[i]]]
        passing == IF r.score_threshold = None THEN ranked
                   ELSE SelectSeq(ranked, LAMBDA c : Score(q, c) >= r.score_threshold[1])
    IN SubSeq(passing, 1, IF Len(passing) < r.k THEN Len(passing) ELSE r.k)

Retriever(type, k, score_threshold, chunks) ==
    [type |-> type, k |-> k, score_threshold |-> score_threshold, chunks |-> chunks]

\* The result of a get_retriever call: the exception raised ("" when it
\* returned), the retriever returned, the storage directory afterwards and
\* the branch taken.
Outcome(err, r, store, path) ==
    [error |-> err, retriever |-> r, storage |-> store, path |-> path]

(***************************************************************************)
(* addinfo_retrieval.py: get_retriever                                     *)
(***************************************************************************)
\* type == "tfidf"
get_retriever_tfidf(store, emb_config, dir) ==
    LET doc == get_document_splits(dir)
        \* the index after the if/else, or the exception it raised
        index ==
            IF store = None
            THEN IF doc.error # "" THEN Outcome(doc.error, None, store, "build")
                 ELSE IF Len(doc.splits) = 0
                      THEN Outcome("ValueError", None, store, "build")
                      ELSE Outcome("", None, Some(Artifact("tfidf", doc.splits)), "build")
            ELSE IF store[1].kind # "tfidf"
                 THEN Outcome("FileNotFoundError", None, store, "load")
                 ELSE Outcome("", None, store, "load")
    IN IF index.error # "" THEN index
       \* retriever.k = embedding_config["k"]
       ELSE IF "k" \notin DOMAIN emb_config
            THEN Outcome("KeyError", None, index.storage, index.path)
            ELSE Outcome("", Some(Retriever("tfidf", emb_config.k, None,
                                            index.storage[1].chunks)),
                         index.storage, index.path)

\* type == "openai-embedding".  OpenAIEmbeddings(**embedding_config) is
\* taken to accept the dict it is given.
get_retriever_openai(store, emb_config, srch_config, dir, service_up) ==
    LET doc == get_document_splits(dir)
    IN IF store = None
       THEN IF doc.error # "" THEN Outcome(doc.error, None, store, "build")
            \* FAISS.from_documents embeds every chunk
            ELSE IF Len(doc.splits) = 0 THEN Outcome("IndexError", None, store, "build")
            ELSE IF ~service_up THEN Outcome("APIError", None, store, "build")
            \* search_kwargs read from embedding_config, before save_local
            ELSE IF "score_threshold" \notin DOMAIN emb_config
                    \/ "k" \notin DOMAIN emb_config
                 THEN Outcome("KeyError", None, store, "build")
                 ELSE Outcome("",
                              Some(Retriever("openai-embedding", emb_config.k,
                                             Some(emb_config.score_threshold),
                                             doc.splits)),
                              Some(Artifact("faiss", doc.splits)), "build")
       ELSE IF store[1].kind # "faiss"
            THEN Outcome("RuntimeError", None, store, "load")
            ELSE Outcome("",
                         Some(Retriever("openai-embedding", srch_config.k,
                                        Some(srch_config.score_threshold),
                                        store[1].chunks)),
                         store, "load")

get_retriever(type, store, emb_config, srch_config, dir, service_up) ==
    IF type = "tfidf" THEN get_retriever_tfidf(store, emb_config, dir)
    ELSE IF type = "openai-embedding"
         THEN get_retriever_openai(store, emb_config, srch_config, dir, service_up)
         ELSE Outcome("ValueError", None, store, "none")

(***************************************************************************)
(* addinfo_retrieval.py: prompts and chains                                *)
(***************************************************************************)
\* str.replace(old, new): every occurrence, left to right.
RECURSIVE str_replace(_, _, _)
str_replace(s, old, new) ==
    LET n == Len(old)
        at == { i \in 1..(Len(s) - n + 1) : SubSeq(s, i, i + n - 1) = old }
    IN IF at = {} THEN s
       ELSE LET first == CHOOSE i \in at : \A j \in at : i <= j
            IN SubSeq(s, 1, first - 1) \o new
               \o str_replace(SubSeq(s, first + n, Len(s)), old, new)

InstructionText ==
    "You are a professional color commentator for a live broadcast of soccer. \n"
    \o "Using the documents below, \n"
    \o "provide just one comment with a fact, such as player records or team statistics, relevant to the current soccer match. \n"
    \o "The comment should be short, clear, accurate, and suitable for live commentary. \n"
    \o "The game date will be given as YYYY-MM-DD. Do not use information dated after this.\n"
    \o "This comment should be natural comments following the previous comments given to the prompt."

\* __main__: if args.no_retrieval: INSTRUCTION = INSTRUCTION.replace(...)
InstructionWithoutDocuments == str_replace(InstructionText, "Using the documents below,", "")

\* prompt_template_no_retrieval
prompt_no_retrieval(instruction, q) ==
    instruction \o "\n\n===\n" \o q \o "\n\nComment:"

\* prompt_template
prompt_with_documents(instruction, documents, q) ==
    instruction \o "\n\n===documents\n" \o documents \o "\n===\n" \o q \o "\n\nComment:"

\* An Optional[str] as a template formats it: str(None) is "None".
OptionalText(x) == IF x = None THEN "None" ELSE x[1]

\* format_docs
format_docs(docs) == str_join("\n\n", docs)

\* The reference documents a YAML file may list.
ReferenceDocuments ==
    << [game |-> Game, half |-> 1, time |-> 10,
        content |-> "Messi won the World Cup in 2022."],
       [game |-> Game, half |-> 2, time |-> 20,
        content |-> "Arsenal last won the league in 2004."] >>

ReferenceFile == "reference.yaml"

\* ReferenceDoc.get_list_from_yaml
get_list_from_yaml(path) == ReferenceDocuments

\* ReferenceDoc.get_reference_documents: the content of the document whose
\* (game, half, time) is exactly the one asked for, None when there is none.
get_reference_documents(game, half, time, reference_documents) ==
    LET hits == SelectSeq(reference_documents,
                          LAMBDA d : d.game = game /\ d.half = half /\ d.time = time)
    IN IF Len(hits) = 0 THEN None ELSE Some(hits[1].content)

select_reference_first(no_retr, yaml) ==
    IF yaml # None THEN "gold_reference"
    ELSE IF no_retr THEN "no_retrieval"
    ELSE "retrieval"

\* get_rag_chain: the branch that builds rag_chain.
select_chain(no_retr, yaml) ==
    IF no_retr THEN "no_retrieval"
    ELSE IF yaml # None THEN "gold_reference"
    ELSE "retrieval"

\* get_rag_chain: reference_doc_data is loaded in the gold-reference branch only.
chain_reference_data(no_retr, yaml) ==
    IF select_chain(no_retr, yaml) = "gold_reference"
    THEN Some(get_list_from_yaml(yaml[1]))
    ELSE None

\* The events an input file may hold: one with a reference document, one
\* without (the document at 20 seconds is of the other half), one that
\* never received a query.
Query1 == "Previous comments: Goal!"
Query2 == "Previous comments: Nice pass"
SpottingEvent(half, game_time, q) ==
    [game |-> Game, half |-> half, game_time |-> game_time, query |-> q,
     generated_text |-> None]
InputEvents ==
    { SpottingEvent(1, 10, Some(Query1)),
      SpottingEvent(1, 20, Some(Query2)),
      SpottingEvent(2, 20, None) }

RECURSIVE SeqsUpTo(_, _)
SeqsUpTo(S, n) ==
    IF n = 0 THEN {<<>>}
    ELSE LET shorter == SeqsUpTo(S, n - 1)
         IN shorter \cup { Append(q, x) : q \in shorter, x \in S }

InputFiles == SeqsUpTo(InputEvents, MaxEvents)

\* The completions the generation service may return.
Responses == {"Messi is on fire.", "What a game."}

has_query_always(e) == FALSE

\* run(): if spotting_data.query is None: continue
has_no_query(e) == e.query = None

skip_never(data, e) == FALSE

\* run(): whether the event is skipped for want of a reference document.
skip_without_reference(data, e) ==
    /\ data # None
    /\ get_reference_documents(e.game, e.half, e.game_time, data[1]) = None

\* The "documents" entry of the chain, as the prompt template formats it.
chain_documents(chain, data, r, e) ==
    IF chain = "gold_reference"
    THEN OptionalText(get_reference_documents(e.game, e.half, e.game_time, data[1]))
    ELSE format_docs(Retrieve(r[1], OptionalText(e.query)))

\* The prompt rag_chain sends for an event.
chain_prompt(chain, instruction, data, r, e) ==
    IF chain = "no_retrieval"
    THEN prompt_no_retrieval(instruction, OptionalText(e.query))
    ELSE prompt_with_documents(instruction, chain_documents(chain, data, r, e),
                               OptionalText(e.query))

\* SpottingDataList.to_jsonline: one record per event, in order.
to_jsonline(spottings) == spottings

(***************************************************************************)
(* addinfo_retrieval.py: run                                               *)
(***************************************************************************)
\* __main__ parses the arguments and calls run().  files are the input
\* files the run may be given, from the values of pc a run may start at.
StartRun(files, from) ==
    /\ pc \in from
    /\ \E t \in RetrieverTypes, nr \in BOOLEAN, yaml \in {None, Some(ReferenceFile)},
          ec \in EmbeddingConfigs, sc \in SearchConfigs, f \in files, up \in BOOLEAN :
          /\ retriever_type' = t
          /\ no_retrieval' = nr
          /\ reference_documents_yaml' = yaml
          /\ embedding_config' = ec
          /\ search_config' = sc
          /\ input_spottings' = f
          /\ embedding_up' = up
          /\ INSTRUCTION' = IF nr THEN InstructionWithoutDocuments ELSE InstructionText
    /\ pc' = "retriever"
    /\ retriever' = None
    /\ storage_before' = None
    /\ index_path' = "none"
    /\ rag_chain' = ""
    /\ reference_doc_data' = None
    /\ idx' = 0
    /\ result_list' = <<>>
    /\ llm_calls' = <<>>
    /\ lookups' = 0
    /\ retriever_queries' = 0
    /\ output_file' = None
    /\ error' = ""
    /\ UNCHANGED <<envVars, ingestVars, queryVars>>

\* run(): retriever = get_retriever(retriever_type, PERSIST_LANGCHAIN_DIR, ...)
GetRetriever ==
    /\ pc = "retriever"
    /\ LET out == get_retriever(retriever_type, storage, embedding_config,
                                search_config, corpus, embedding_up)
       IN /\ storage_before' = storage
          /\ storage' = out.storage
          /\ index_path' = out.path
          /\ retriever' = out.retriever
          /\ error' = out.error
          /\ pc' = IF out.error = "" THEN "chain" ELSE "failed"
          /\ built_by' = IF out.error = "" /\ out.path = "build"
                         THEN Some([type |-> retriever_type,
                                    embedding_config |-> embedding_config,
                                    search_config |-> search_config,
                                    retriever |-> out.retriever[1]])
                         ELSE built_by
    /\ UNCHANGED <<corpus, argVars, rag_chain, reference_doc_data, idx, result_list,
                   llm_calls, lookups, retriever_queries, output_file,
                   ingestVars, queryVars>>

\* run(): rag_chain, reference_doc_data, ... = get_rag_chain(...), then
\* result_list = SpottingDataList([]) and the loop starts.
GetRagChain ==
    /\ pc = "chain"
    /\ rag_chain' = select_chain(no_retrieval, reference_documents_yaml)
    /\ reference_doc_data' = chain_reference_data(no_retrieval, reference_documents_yaml)
    /\ idx' = 1
    /\ pc' = "loop"
    /\ UNCHANGED <<envVars, argVars, retriever, storage_before, index_path,
                   result_list, llm_calls, lookups, retriever_queries, output_file,
                   error, ingestVars, queryVars>>

AtEvent == pc = "loop" /\ idx <= Len(input_spottings)

\* The reference lookups run() itself makes for the event.
RunLookups == IF reference_doc_data # None THEN 1 ELSE 0

\* Whether the retriever's call of the embedding service raises.
RetrievalRaises ==
    /\ rag_chain = "retrieval"
    /\ retriever[1].type = "openai-embedding"
    /\ ~embedding_up

\* run(): if spotting_data.query is None: continue
SkipNullQuery ==
    /\ AtEvent
    /\ has_no_query(input_spottings[idx])
    /\ idx' = idx + 1
    /\ UNCHANGED <<envVars, argVars, pc, retriever, storage_before, index_path,
                   rag_chain, reference_doc_data, result_list, llm_calls, lookups,
                   retriever_queries, output_file, error, ingestVars, queryVars>>

\* run(): the event has no reference document: continue
SkipNoReference ==
    /\ AtEvent
    /\ ~has_no_query(input_spottings[idx])
    /\ skip_without_reference(reference_doc_data, input_spottings[idx])
    /\ lookups' = lookups + RunLookups
    /\ idx' = idx + 1
    /\ UNCHANGED <<envVars, argVars, pc, retriever, storage_before, index_path,
                   rag_chain, reference_doc_data, result_list, llm_calls,
                   retriever_queries, output_file, error, ingestVars, queryVars>>

\* run(): rag_chain.invoke(spotting_data), up to the call of the generation
\* service: the documents are fetched, the prompt is formatted and sent.
Dispatch ==
    /\ AtEvent
    /\ ~has_no_query(input_spottings[idx])
    /\ ~skip_without_reference(reference_doc_data, input_spottings[idx])
    /\ ~RetrievalRaises
    /\ llm_calls' = Append(llm_calls,
                           [event |-> idx,
                            prompt |-> chain_prompt(rag_chain, INSTRUCTION,
                                                    reference_doc_data, retriever,
                                                    input_spottings[idx]),
                            response |-> None])
    /\ lookups' = lookups + RunLookups + (IF rag_chain = "gold_reference" THEN 1 ELSE 0)
    /\ retriever_queries' = retriever_queries + (IF rag_chain = "retrieval" THEN 1 ELSE 0)
    /\ pc' = "invoke"
    /\ UNCHANGED <<envVars, argVars, retriever, storage_before, index_path, rag_chain,
                   reference_doc_data, idx, result_list, output_file, error,
                   ingestVars, queryVars>>

\* run(): rag_chain.invoke raises in the retriever; run() does not catch it.
RetrieveRaise ==
    /\ AtEvent
    /\ ~has_no_query(input_spottings[idx])
    /\ ~skip_without_reference(reference_doc_data, input_spottings[idx])
    /\ RetrievalRaises
    /\ retriever_queries' = retriever_queries + 1
    /\ error' = "APIError"
    /\ pc' = "failed"
    /\ UNCHANGED <<envVars, argVars, retriever, storage_before, index_path, rag_chain,
                   reference_doc_data, idx, result_list, llm_calls, lookups,
                   output_file, ingestVars, queryVars>>

LLMRaiseSavesPartial ==
    /\ pc = "invoke"
    /\ error' = "GenerationError"
    /\ pc' = "failed"
    /\ output_file' = Some(to_jsonline(result_list))
    /\ UNCHANGED <<envVars, argVars, retriever, storage_before, index_path, rag_chain,
                   reference_doc_data, idx, result_list, llm_calls, lookups,
                   retriever_queries, ingestVars, queryVars>>

\* run(): the generation service raises; run() does not catch it and
\* result_list.to_jsonline is never reached.
LLMRaise ==
    /\ pc = "invoke"
    /\ error' = "GenerationError"
    /\ pc' = "failed"
    /\ UNCHANGED <<envVars, argVars, retriever, storage_before, index_path, rag_chain,
                   reference_doc_data, idx, result_list, llm_calls, lookups,
                   retriever_queries, output_file, ingestVars, queryVars>>

\* run(): response = rag_chain.invoke(...) returns;
\* spotting_data.generated_text = response; result_list.spottings.append(...)
LLMReturn ==
    /\ pc = "invoke"
    /\ \E response \in Responses :
          LET generated == [input_spottings[idx] EXCEPT !.generated_text = Some(response)]
          IN /\ llm_calls' = [llm_calls EXCEPT ![Len(llm_calls)].response = Some(response)]
             /\ input_spottings' = [input_spottings EXCEPT ![idx] = generated]
             /\ result_list' = Append(result_list, generated)
    /\ idx' = idx + 1
    /\ pc' = "loop"
    /\ UNCHANGED <<envVars, retriever_type, no_retrieval, reference_documents_yaml,
                   embedding_config, search_config, INSTRUCTION, embedding_up,
                   retriever, storage_before, index_path, rag_chain,
                   reference_doc_data, lookups, retriever_queries, output_file, error,
                   ingestVars, queryVars>>

\* run(): result_list.to_jsonline(output_file)
Save ==
    /\ pc = "loop"
    /\ idx > Len(input_spottings)
    /\ output_file' = Some(to_jsonline(result_list))
    /\ pc' = "done"
    /\ UNCHANGED <<envVars, argVars, retriever, storage_before, index_path, rag_chain,
                   reference_doc_data, idx, result_list, llm_calls, lookups,
                   retriever_queries, error, ingestVars, queryVars>>

\* One run; the storage directory may have been left by an earlier one.
InitOfRun ==
    /\ InitIngest
    /\ InitQueryIdle
    /\ InitRunIdle
    /\ corpus \in Corpora
    /\ storage \in {None, Some(Artifact("tfidf", CorpusDocuments)),
                    Some(Artifact("faiss", CorpusDocuments))}

NextRun ==
    \/ StartRun(InputFiles, {"idle"})
    \/ GetRetriever
    \/ GetRagChain
    \/ SkipNullQuery
    \/ SkipNoReference
    \/ Dispatch
    \/ RetrieveRaise
    \/ LLMRaise
    \/ LLMReturn
    \/ Save

SpecRun == InitOfRun /\ [][NextRun]_vars

\* Successive runs on empty input files, from an absent storage directory.
InitOfRetriever ==
    /\ InitIngest
    /\ InitQueryIdle
    /\ InitRunIdle
    /\ corpus \in Corpora
    /\ storage = None

NextRetriever ==
    \/ StartRun({<<>>}, {"idle", "done", "failed"})
    \/ GetRetriever
    \/ GetRagChain
    \/ Save

SpecRetriever == InitOfRetriever /\ [][NextRetriever]_vars

(***************************************************************************)
(* Notions the generation claims share.                                    *)
(***************************************************************************)
\* The run uses the gold-reference strategy.
GoldReferenceRun == ~no_retrieval /\ reference_documents_yaml # None

\* The reference documents whose (game, half, time) is exactly e's.
MatchingDocuments(e) ==
    { i \in 1..Len(ReferenceDocuments) :
        /\ ReferenceDocuments[i].game = e.game
        /\ ReferenceDocuments[i].half = e.half
        /\ ReferenceDocuments[i].time = e.game_time }

\* The first position of marker in s, 0 when it does not occur.
FirstIndexOf(s, marker) ==
    LET n == Len(marker)
        at == { i \in 1..(Len(s) - n + 1) : SubSeq(s, i, i + n - 1) = marker }
    IN IF at = {} THEN 0 ELSE CHOOSE i \in at : \A j \in at : i <= j

\* The documents section of a prompt: what stands between the line
\* "===documents" and the line "===" that follows it.
DocumentsSection(prompt) ==
    LET rest == AfterMarker(prompt, "\n\n===documents\n")
    IN SubSeq(rest, 1, FirstIndexOf(rest, "\n===\n") - 1)

\* The fields of an event that run() never writes.
Identity(e) == <<e.game, e.half, e.game_time, e.query>>

\* The run got as far as its loop.
InLoop == pc \in {"loop", "invoke", "done"} \/ (pc = "failed" /\ rag_chain # "")

(***************************************************************************)
(* C2: in a gold-reference run, an event with a query but without a        *)
(* reference document of exactly its (game, half, game_time) is never sent *)
(* to the generation service and is not in the output; for an event with   *)
(* such a document the prompt's documents section is exactly that          *)
(* document's content.                                                     *)
(***************************************************************************)
C2_GoldReference ==
    (GoldReferenceRun /\ InLoop) =>
        /\ \A j \in 1..Len(llm_calls) :
              LET e == input_spottings[llm_calls[j].event] IN
              /\ e.query # None
              /\ MatchingDocuments(e) # {}
              /\ \A i \in MatchingDocuments(e) :
                    DocumentsSection(llm_calls[j].prompt) = ReferenceDocuments[i].content
        /\ Len(result_list) <= Len(llm_calls)
        /\ \A j \in 1..Len(result_list) :
              Identity(result_list[j]) = Identity(input_spottings[llm_calls[j].event])
        /\ output_file # None => output_file[1] = result_list

\* A finished gold-reference run over an event without a document and one
\* with a document: one prompt was sent and one record written.
C2_Witness ==
    /\ GoldReferenceRun
    /\ pc = "done"
    /\ Len(input_spottings) = 2
    /\ Identity(input_spottings[1]) = <<Game, 1, 20, Some(Query2)>>
    /\ Identity(input_spottings[2]) = <<Game, 1, 10, Some(Query1)>>
    /\ Len(llm_calls) = 1
    /\ llm_calls[1].event = 2
    /\ DocumentsSection(llm_calls[1].prompt) = "Messi won the World Cup in 2022."
    /\ Len(output_file[1]) = 1

(***************************************************************************)
(* C3: events are dispatched one at a time in input order, and a run in    *)
(* which no generation call fails writes exactly the events that have a    *)
(* query (and, under gold-reference, a matching reference document), in    *)
(* input order, each with the text its own generation call returned.       *)
(***************************************************************************)
Eligible(e) ==
    /\ e.query # None
    /\ GoldReferenceRun => MatchingDocuments(e) # {}

\* The positions of the eligible events among the first n, ascending.
RECURSIVE EligiblePositions(_)
EligiblePositions(n) ==
    IF n = 0 THEN <<>>
    ELSE EligiblePositions(n - 1) \o (IF Eligible(input_spottings[n]) THEN <<n>> ELSE <<>>)

C3_OutputIsEligibleSubsequence ==
    /\ InLoop =>
          \* calls are made in input order, one at a time
          /\ \A j, k \in 1..Len(llm_calls) : j < k =>
                /\ llm_calls[j].event < llm_calls[k].event
                /\ llm_calls[j].response # None
          /\ pc = "invoke" =>
                /\ llm_calls[Len(llm_calls)].event = idx
                /\ llm_calls[Len(llm_calls)].response = None
          \* every earlier event was dropped or generated
          /\ pc \in {"loop", "invoke"} =>
                LET done == EligiblePositions(idx - 1) IN
                /\ Len(result_list) = Len(done)
                /\ \A j \in 1..Len(done) :
                      llm_calls[j].event = done[j] /\ llm_calls[j].response # None
    /\ pc = "done" =>
          LET pos == EligiblePositions(Len(input_spottings)) IN
          /\ output_file # None
          /\ Len(output_file[1]) = Len(pos)
          /\ Len(llm_calls) = Len(pos)
          /\ \A j \in 1..Len(pos) :
                /\ llm_calls[j].event = pos[j]
                /\ Identity(output_file[1][j]) = Identity(input_spottings[pos[j]])
                /\ output_file[1][j].generated_text = llm_calls[j].response
                /\ output_file[1][j].generated_text # None
          /\ \A j \in 1..Len(output_file[1]) : output_file[1][j].query # None

\* A finished run over an event without a query followed by two events with
\* one, whose generation calls returned different texts.
C3_Witness ==
    /\ pc = "done"
    /\ Len(input_spottings) = 3
    /\ input_spottings[1].query = None
    /\ input_spottings[2].query = Some(Query2)
    /\ input_spottings[3].query = Some(Query1)
    /\ Len(output_file[1]) = 2
    /\ output_file[1][1].query = Some(Query2)
    /\ output_file[1][1].generated_text = Some("What a game.")
    /\ output_file[1][2].query = Some(Query1)
    /\ output_file[1][2].generated_text = Some("Messi is on fire.")

(***************************************************************************)
(* C5: a generation call that raises ends the run: no later event is       *)
(* dispatched and no output file is written; an output file, when written, *)
(* holds every event whose generation call returned.                       *)
(***************************************************************************)
C5_NoPartialOutput ==
    /\ pc = "failed" => output_file = None
    /\ \A j \in 1..Len(llm_calls) :
          llm_calls[j].response = None =>
              /\ j = Len(llm_calls)
              /\ pc \in {"invoke", "failed"}
              /\ output_file = None
    /\ output_file # None =>
          /\ pc = "done"
          /\ Len(output_file[1]) = Len(llm_calls)
          /\ \A j \in 1..Len(llm_calls) :
                /\ llm_calls[j].response # None
                /\ output_file[1][j].generated_text = llm_calls[j].response

\* The second generation call of a run raised after the first returned.
C5_Witness ==
    /\ pc = "failed"
    /\ error = "GenerationError"
    /\ Len(llm_calls) = 2
    /\ Len(result_list) = 1
    /\ output_file = None

(***************************************************************************)
(* C8: the strategy is fixed before the first event and is one for the     *)
(* whole run: no-retrieval when the flag is set (a reference file          *)
(* notwithstanding), else gold-reference when a reference file is given,   *)
(* else automatic retrieval.  Under no-retrieval every prompt is the       *)
(* instruction and the query, no reference lookup or retriever query is    *)
(* made and no event with a query is dropped.                              *)
(***************************************************************************)
C8_StrategyFixedPerRun ==
    /\ idx >= 1 => rag_chain # ""
    /\ rag_chain # "" =>
          /\ no_retrieval => rag_chain = "no_retrieval"
          /\ (~no_retrieval /\ reference_documents_yaml # None)
                => rag_chain = "gold_reference"
          /\ (~no_retrieval /\ reference_documents_yaml = None)
                => rag_chain = "retrieval"
    /\ (no_retrieval /\ InLoop) =>
          /\ lookups = 0
          /\ retriever_queries = 0
          /\ reference_doc_data = None
          /\ \A j \in 1..Len(llm_calls) :
                llm_calls[j].prompt
                   = INSTRUCTION \o "\n\n===\n"
                     \o input_spottings[llm_calls[j].event].query[1]
                     \o "\n\nComment:"
          /\ \A p \in 1..Len(input_spottings) :
                (p < idx /\ input_spottings[p].query # None)
                   => \E j \in 1..Len(llm_calls) : llm_calls[j].event = p
    /\ (GoldReferenceRun /\ InLoop) =>
          /\ retriever_queries = 0
          /\ \A j \in 1..Len(llm_calls) :
                FirstIndexOf(llm_calls[j].prompt, "\n\n===documents\n") > 0
    /\ (~no_retrieval /\ reference_documents_yaml = None /\ InLoop) =>
          /\ lookups = 0
          /\ retriever_queries >= Len(llm_calls)
          /\ \A j \in 1..Len(llm_calls) :
                FirstIndexOf(llm_calls[j].prompt, "\n\n===documents\n") > 0

\* A finished no-retrieval run that was also given a reference file, over
\* an event that has no reference document: the event was generated.
C8_Witness ==
    /\ pc = "done"
    /\ no_retrieval
    /\ reference_documents_yaml # None
    /\ Len(input_spottings) = 2
    /\ Identity(input_spottings[1]) = <<Game, 1, 20, Some(Query2)>>
    /\ Identity(input_spottings[2]) = <<Game, 1, 10, Some(Query1)>>
    /\ Len(llm_calls) = 2
    /\ Len(output_file[1]) = 2

(***************************************************************************)
(* Notions the retriever claims share.                                     *)
(***************************************************************************)
\* The run's get_retriever call is over.
AfterGetRetriever == pc \notin {"idle", "retriever"}

KnownStrategy == retriever_type \in {"tfidf", "openai-embedding"}

\* DOCUMENT_DIR exists and holds documents.
CorpusPresent == corpus # None /\ Len(corpus[1]) > 0

\* The library whose artifact a strategy reads and writes.
KindOf(type) == IF type = "tfidf" THEN "tfidf" ELSE "faiss"

(***************************************************************************)
(* C4: a get_retriever call that finds the storage directory loads the     *)
(* index and writes nothing; a call of either strategy that finds no       *)
(* storage directory (the corpus present, the embedding service up) builds *)
(* the index and leaves the directory behind for the next call to load.    *)
(***************************************************************************)
C4_BuildLeavesStorage ==
    (AfterGetRetriever /\ KnownStrategy) =>
        /\ storage_before # None =>
              /\ index_path = "load"
              /\ storage = storage_before
        /\ (storage_before = None /\ CorpusPresent /\ embedding_up) =>
              /\ index_path = "build"
              /\ storage # None

(***************************************************************************)
(* C6: called by run with the embedding_config and search_config __main__  *)
(* builds, get_retriever returns a retriever for a known strategy when the *)
(* corpus is present and the embedding service is up, whether it builds    *)
(* the index or loads the one this strategy stored.                        *)
(***************************************************************************)
C6_KnownStrategyReturnsRetriever ==
    (/\ AfterGetRetriever
     /\ embedding_config = MainEmbeddingConfig
     /\ KnownStrategy
     /\ CorpusPresent
     /\ embedding_up
     /\ storage_before # None => storage_before[1].kind = KindOf(retriever_type))
    => (error = "" /\ retriever # None)

(***************************************************************************)
(* C7: a retriever obtained by loading the persisted index is configured   *)
(* as the retriever obtained when that index was built with the same       *)
(* strategy and configuration (same k, same score threshold) and answers   *)
(* every query with the same ranked results.                               *)
(***************************************************************************)
C7_RoundTripSameRetriever ==
    (/\ AfterGetRetriever
     /\ index_path = "load"
     /\ retriever # None
     /\ built_by # None
     /\ built_by[1].type = retriever_type
     /\ built_by[1].embedding_config = embedding_config
     /\ built_by[1].search_config = search_config)
    => /\ retriever[1].k = built_by[1].retriever.k
       /\ retriever[1].score_threshold = built_by[1].retriever.score_threshold
       /\ \A q \in {Query1, Query2} :
             Retrieve(retriever[1], q) = Retrieve(built_by[1].retriever, q)

(***************************************************************************)
(* C11: the persisted index is keyed by (strategy, storage path): over any *)
(* sequence of runs, starting with no storage directory, a get_retriever   *)
(* call that takes the load branch finds in the directory an artifact that *)
(* a run of its own strategy built, never one built and persisted by a run *)
(* of the other strategy.                                                  *)
(***************************************************************************)
C11_LoadsOwnStrategyIndex ==
    (AfterGetRetriever /\ KnownStrategy /\ index_path = "load") =>
        /\ storage_before # None
        /\ storage_before[1].kind = KindOf(retriever_type)

====
